---------------------------- MODULE Spec2Model ----------------------------
(***************************************************************************)
(* A model of the rank-1 constraint circuit builder and evaluator of       *)
(* src/src/groth16/circuit/builder/mod.rs (struct Circuit<T>), its boolean *)
(* gate library and the Keccak-f builder steps built on top of it.         *)
(*                                                                         *)
(* Encoding of the Rust containers:                                        *)
(*   HashMap<K, V>  a function over a fixed key universe 0..n-1 whose      *)
(*                  value is <<>> for a missing key and <<v>> for a key    *)
(*                  mapped to v;                                           *)
(*   Option<T>      <<>> for None and <<v>> for Some(v);                   *)
(*   Vec<X>         a sequence;                                            *)
(*   (T, WireId)    the pair <<weight, wire>>;                             *)
(*   ConnectionType <<"Left", weight, sc>>, <<"Right", weight, sc>>,       *)
(*                  <<"Output", sc>>;                                      *)
(*   a panic        a non-empty message in the field panic of the result.  *)
(* A method taking &mut self is an operator from the circuit record to a   *)
(* record holding the new circuit (field c) and the returned value.        *)
(***************************************************************************)
EXTENDS Integers, Sequences, FiniteSets, TLC

VARIABLES
    next_wire_id,          \* Circuit::next_wire_id
    next_sub_circuit_id,   \* Circuit::next_sub_circuit_id
    wire_assignments,      \* Circuit::wire_assignments
    sub_circuit_wires,     \* Circuit::sub_circuit_wires
    wire_values,           \* Circuit::wire_values
    ret,                   \* the last call: its name, wire argument, result
    pc,                    \* position of the driver of the scenario specs
    kst                    \* locals of the scenario drivers

vars == <<next_wire_id, next_sub_circuit_id, wire_assignments,
          sub_circuit_wires, wire_values, ret, pc, kst>>

----------------------------------------------------------------------------
(* The field T: the prime field Z251 of the crate (field::z251::Z251).     *)

P == 251

Zero == 0
One == 1
Add(a, b) == (a + b) % P
Mul(a, b) == (a * b) % P
Neg(a) == (P - a) % P

----------------------------------------------------------------------------
(* Bounds of the model.                                                    *)

MaxWires == 4      \* wire ids 0..MaxWires-1 exist in the API specification
MaxSubs == 2       \* sub-circuit ids 0..MaxSubs-1
MaxInput == 1      \* set_value binds values 0..MaxInput

----------------------------------------------------------------------------
(* The circuit as a record, and the methods of impl Circuit<T>.            *)

Self ==
    [next_wire_id |-> next_wire_id,
     next_sub_circuit_id |-> next_sub_circuit_id,
     wire_assignments |-> wire_assignments,
     sub_circuit_wires |-> sub_circuit_wires,
     wire_values |-> wire_values]

Wires(c) == DOMAIN c.wire_values
SubIds(c) == DOMAIN c.sub_circuit_wires

new(nw, ns) ==
    [next_wire_id |-> 2,
     next_sub_circuit_id |-> 0,
     wire_assignments |-> [w \in 0..(nw - 1) |-> <<>>],
     sub_circuit_wires |-> [s \in 0..(ns - 1) |-> <<>>],
     wire_values |-> [w \in 0..(nw - 1) |->
                        IF w = 0 THEN << <<Zero>> >>
                        ELSE IF w = 1 THEN << <<One>> >>
                        ELSE <<>>]]

zero_wire == 0

unity_wire == 1

(* A variant that forgets to advance the counter.                          *)
new_wire_no_advance(c) ==
    [c |-> [c EXCEPT !.wire_values[c.next_wire_id] = << <<>> >>],
     wire |-> c.next_wire_id]

new_wire(c) ==
    [c |-> [c EXCEPT !.next_wire_id = c.next_wire_id + 1,
                     !.wire_values[c.next_wire_id] = << <<>> >>],
     wire |-> c.next_wire_id]

num_wires(c) == c.next_wire_id

Ok(v) == [panic |-> "", value |-> v]
Panic(msg) == [panic |-> msg, value |-> <<>>]

value(c, wire) ==
    IF wire \notin Wires(c) \/ c.wire_values[wire] = <<>>
    THEN Panic("wire is not defined in this circuit")
    ELSE Ok(c.wire_values[wire][1])

set_value(c, wire, v) ==
    [c EXCEPT !.wire_values[wire] = << <<v>> >>]

assignments(c, wire) ==
    IF wire \notin Wires(c) \/ c.wire_assignments[wire] = <<>>
    THEN Panic("wire id is not defined in this circuit")
    ELSE Ok(c.wire_assignments[wire][1])

insert_connection(c, wire, connection) ==
    IF c.wire_assignments[wire] = <<>>
    THEN [c EXCEPT !.wire_assignments[wire] = << <<connection>> >>]
    ELSE [c EXCEPT !.wire_assignments[wire] =
                       << Append(c.wire_assignments[wire][1], connection) >>]

sub_circuits(c) == 0..(c.next_sub_circuit_id - 1)

RECURSIVE insert_inputs(_, _, _, _)
insert_inputs(c, kind, inputs, sc) ==
    IF inputs = <<>> THEN c
    ELSE insert_inputs(
             insert_connection(c, inputs[1][2], <<kind, inputs[1][1], sc>>),
             kind, Tail(inputs), sc)

(* A variant that takes the last allocated wire as the output instead of   *)
(* allocating a fresh one.                                                 *)
new_sub_circuit_reuse(c, left_inputs, right_inputs) ==
    LET sub_circuit_id == c.next_sub_circuit_id
        c1 == [c EXCEPT !.next_sub_circuit_id = c.next_sub_circuit_id + 1]
        output_wire == c.next_wire_id - 1
        c2 == insert_inputs(c1, "Left", left_inputs, sub_circuit_id)
        c3 == insert_inputs(c2, "Right", right_inputs, sub_circuit_id)
        c4 == insert_connection(c3, output_wire, <<"Output", sub_circuit_id>>)
        c5 == [c4 EXCEPT !.sub_circuit_wires[sub_circuit_id] =
                   << [left_inputs |-> left_inputs,
                       right_inputs |-> right_inputs,
                       output |-> output_wire] >>]
    IN  [c |-> c5, wire |-> output_wire]

new_sub_circuit(c, left_inputs, right_inputs) ==
    LET sub_circuit_id == c.next_sub_circuit_id
        c1 == [c EXCEPT !.next_sub_circuit_id = c.next_sub_circuit_id + 1]
        nw == new_wire(c1)
        output_wire == nw.wire
        c2 == insert_inputs(nw.c, "Left", left_inputs, sub_circuit_id)
        c3 == insert_inputs(c2, "Right", right_inputs, sub_circuit_id)
        c4 == insert_connection(c3, output_wire, <<"Output", sub_circuit_id>>)
        c5 == [c4 EXCEPT !.sub_circuit_wires[sub_circuit_id] =
                   << [left_inputs |-> left_inputs,
                       right_inputs |-> right_inputs,
                       output |-> output_wire] >>]
    IN  [c |-> c5, wire |-> output_wire]

EOk(c, v) == [c |-> c, panic |-> "", value |-> v]
EPanic(c, msg) == [c |-> c, panic |-> msg, value |-> Zero]

IsOutput(conn) == conn[1] = "Output"

RECURSIVE evaluate(_, _, _)
RECURSIVE fold_inputs(_, _, _, _)

(* A variant whose right-hand fold runs over the left inputs again.        *)
evaluate_sub_circuit_left_twice(c, sub_circuit, stack) ==
    IF sub_circuit \notin SubIds(c) \/ c.sub_circuit_wires[sub_circuit] = <<>>
    THEN EPanic(c, "a sub circuit referenced by a wire should exist")
    ELSE LET s == c.sub_circuit_wires[sub_circuit][1]
             lhs == fold_inputs(c, s.left_inputs, Zero, stack)
         IN  IF lhs.panic # "" THEN lhs
             ELSE LET rhs == fold_inputs(lhs.c, s.left_inputs, Zero, stack)
                  IN  IF rhs.panic # "" THEN rhs
                      ELSE EOk(rhs.c, Mul(lhs.value, rhs.value))

(* evaluate_sub_circuit; stack is the set of wires whose evaluate call is  *)
(* on the call stack.                                                      *)
evaluate_sub_circuit(c, sub_circuit, stack) ==
    IF sub_circuit \notin SubIds(c) \/ c.sub_circuit_wires[sub_circuit] = <<>>
    THEN EPanic(c, "a sub circuit referenced by a wire should exist")
    ELSE LET s == c.sub_circuit_wires[sub_circuit][1]
             lhs == fold_inputs(c, s.left_inputs, Zero, stack)
         IN  IF lhs.panic # "" THEN lhs
             ELSE LET rhs == fold_inputs(lhs.c, s.right_inputs, Zero, stack)
                  IN  IF rhs.panic # "" THEN rhs
                      ELSE EOk(rhs.c, Mul(lhs.value, rhs.value))

(* fold(T::zero(), |acc, (weight, wire)| acc + weight * self.evaluate(wire)) *)
fold_inputs(c, inputs, acc, stack) ==
    IF inputs = <<>> THEN EOk(c, acc)
    ELSE LET e == evaluate(c, inputs[1][2], stack)
         IN  IF e.panic # "" THEN e
             ELSE fold_inputs(e.c, Tail(inputs),
                              Add(acc, Mul(inputs[1][1], e.value)), stack)

(* A wire that is evaluated again while its own evaluate call is still on  *)
(* the stack has no cached value yet, so the call repeats itself without   *)
(* end: the recursion overflows the stack.                                 *)
evaluate(c, wire, stack) ==
    IF wire \notin Wires(c) \/ c.wire_values[wire] = <<>>
    THEN EPanic(c, "cannot evaluate unknown wire")
    ELSE IF c.wire_values[wire][1] # <<>>
    THEN EOk(c, c.wire_values[wire][1][1])
    ELSE IF c.wire_assignments[wire] = <<>>
    THEN EPanic(c, "a wire must be attached to something")
    ELSE LET outs == SelectSeq(c.wire_assignments[wire][1], IsOutput)
         IN  IF outs = <<>>
             THEN EPanic(c, "a wire with an unknown value must be the output of a sub circuit")
             ELSE IF wire \in stack
             THEN EPanic(c, "stack overflow")
             ELSE LET r == evaluate_sub_circuit(c, outs[1][2], stack \cup {wire})
                  IN  IF r.panic # "" THEN r
                      ELSE EOk([r.c EXCEPT !.wire_values[wire] = << <<r.value>> >>],
                               r.value)

reset(c) ==
    [c EXCEPT !.wire_values =
        [k \in Wires(c) |->
            IF k = zero_wire \/ k = unity_wire \/ c.wire_values[k] = <<>>
            THEN c.wire_values[k]
            ELSE << <<>> >>]]

(* A variant with the sign of the unity term flipped.                      *)
new_bit_checker_plus(c, input) ==
    new_sub_circuit(c, << <<One, input>> >>,
                       << <<One, input>>, <<One, unity_wire>> >>)

new_bit_checker(c, input) ==
    new_sub_circuit(c, << <<One, input>> >>,
                       << <<One, input>>, <<Neg(One), unity_wire>> >>)

new_not(c, input) ==
    new_sub_circuit(c, << <<One, unity_wire>> >>,
                       << <<One, unity_wire>>, <<Neg(One), input>> >>)

new_and(c, lhs, rhs) ==
    new_sub_circuit(c, << <<One, lhs>> >>, << <<One, rhs>> >>)

new_or(c, lhs, rhs) ==
    LET lhs_and_rhs == new_and(c, lhs, rhs)
    IN  new_sub_circuit(lhs_and_rhs.c,
            << <<Neg(One), lhs_and_rhs.wire>>, <<One, lhs>>, <<One, rhs>> >>,
            << <<One, unity_wire>> >>)

new_xor(c, lhs, rhs) ==
    new_sub_circuit(c, << <<One, lhs>>, <<Neg(One), rhs>> >>,
                       << <<One, lhs>>, <<Neg(One), rhs>> >>)

(* A gate passed as the closure argument F of fan_in and of the word       *)
(* combinators, named by its tag.                                          *)
gate2(c, g, l, r) ==
    CASE g = "and" -> new_and(c, l, r)
      [] g = "or" -> new_or(c, l, r)
      [] g = "xor" -> new_xor(c, l, r)

RECURSIVE fan_in_fold(_, _, _, _)
fan_in_fold(c, acc, rest, g) ==
    IF rest = <<>> THEN [c |-> c, wire |-> acc, panic |-> ""]
    ELSE LET n == gate2(c, g, acc, rest[1])
         IN  fan_in_fold(n.c, n.wire, Tail(rest), g)

(* A variant without the skip(1): the fold starts at inputs[0] and runs    *)
(* over every input, the first included.                                   *)
fan_in_no_skip(c, inputs, g) ==
    IF Len(inputs) < 2
    THEN [c |-> c, wire |-> zero_wire,
          panic |-> "cannot fan in with fewer than two inputs"]
    ELSE fan_in_fold(c, inputs[1], inputs, g)

fan_in(c, inputs, g) ==
    IF Len(inputs) < 2
    THEN [c |-> c, wire |-> zero_wire,
          panic |-> "cannot fan in with fewer than two inputs"]
    ELSE fan_in_fold(c, inputs[1], Tail(inputs), g)

----------------------------------------------------------------------------
(* Words and the Keccak state.  A Word64 is the sequence of its 64 wires,  *)
(* bit 0 first; a KeccakRow is a sequence of 5 words and a KeccakMatrix a  *)
(* sequence of 5 rows; m[x][y] of the source is Lane(m, x, y).  A u64 is   *)
(* the sequence of its four 16-bit limbs, least significant first.         *)

WordBits == 64
Lanes == 5

U64(v) == <<v, 0, 0, 0>>
IsOdd(n) == n[1] % 2 = 1
Shr1(n) ==
    << (n[1] \div 2) + (n[2] % 2) * 32768,
       (n[2] \div 2) + (n[3] % 2) * 32768,
       (n[3] \div 2) + (n[4] % 2) * 32768,
       n[4] \div 2 >>

(* Index of KeccakRow and KeccakMatrix: taken modulo 5.                    *)
Lane(m, x, y) == m[(x % Lanes) + 1][(y % Lanes) + 1]

(* collect() of 25 words, in iteration order, into a KeccakMatrix.         *)
matrix_from(words) ==
    [x \in 1..Lanes |-> [y \in 1..Lanes |-> words[Lanes * (x - 1) + y]]]

(* The loops below carry the state of the iteration (the circuit, what has *)
(* been collected, the position) in one record st.  A loop of 64 or 25     *)
(* iterations runs its first half and then its second half, which keeps    *)
(* the evaluation shallow; the iterations run in the order of the source.  *)

(* collect() of a map whose closure borrows the circuit: the wire r.wire  *)
(* joins the collected word and the circuit r.c goes to the next step      *)
collect(word, r) == [c |-> r.c, word |-> Append(word, r.wire)]

RECURSIVE new_wires(_, _)
(* (0..n).map(|_| self.new_wire()).collect()                               *)
new_wires(st, n) ==
    LET i == Len(st.word)
    IN  IF i >= n THEN st
        ELSE IF i + 1 = n
        THEN collect(st.word, new_wire(st.c))
        ELSE new_wires(new_wires(st, (i + n) \div 2), n)

new_word64(c) == new_wires([c |-> c, word |-> <<>>], WordBits)

RECURSIVE new_words(_, _)
new_words(st, n) ==
    IF Len(st.row) = n THEN st
    ELSE new_words(LET w == new_word64(st.c)
                   IN  [c |-> w.c, row |-> Append(st.row, w.word)], n)

new_keccakrow(c) == new_words([c |-> c, row |-> <<>>], Lanes)

RECURSIVE new_rows(_, _)
new_rows(st, n) ==
    IF Len(st.matrix) = n THEN st
    ELSE new_rows(LET r == new_keccakrow(st.c)
                  IN  [c |-> r.c, matrix |-> Append(st.matrix, r.row)], n)

new_keccakmatrix(c) == new_rows([c |-> c, matrix |-> <<>>], Lanes)

RECURSIVE set_bits(_, _, _)
(* the for_each of set_word64: st.n is the local n, st.i the position      *)
set_bits(st, u64_wires, last) ==
    IF st.i > last THEN st
    ELSE IF st.i = last
    THEN [c |-> set_value(st.c, u64_wires[st.i],
                          IF IsOdd(st.n) THEN One ELSE Zero),
          n |-> Shr1(st.n),
          i |-> st.i + 1]
    ELSE set_bits(set_bits(st, u64_wires, (st.i + last) \div 2),
                  u64_wires, last)

set_word64(c, u64_wires, input) ==
    set_bits([c |-> c, n |-> input, i |-> 1], u64_wires, Len(u64_wires)).c

RECURSIVE set_words(_, _, _)
set_words(st, row, input) ==
    IF st.i > Len(row) \/ st.i > Len(input) THEN st
    ELSE set_words([c |-> set_word64(st.c, row[st.i], input[st.i]),
                    i |-> st.i + 1], row, input)

set_keccakrow(c, row, input) == set_words([c |-> c, i |-> 1], row, input).c

RECURSIVE set_rows(_, _, _)
set_rows(st, matrix, input) ==
    IF st.i > Len(matrix) \/ st.i > Len(input) THEN st
    ELSE set_rows([c |-> set_keccakrow(st.c, matrix[st.i], input[st.i]),
                   i |-> st.i + 1], matrix, input)

set_keccakmatrix(c, matrix, input) ==
    set_rows([c |-> c, i |-> 1], matrix, input).c

(* rotate_left of the word64 module: position i of the result holds what  *)
(* position i - n of the word holds, positions taken modulo the length     *)
RotateLeft(bits, n) ==
    [i \in 1..Len(bits) |-> bits[((i - 1 - n) % Len(bits)) + 1]]

gate1(c, g, i) ==
    CASE g = "not" -> new_not(c, i)
      [] g = "bit_checker" -> new_bit_checker(c, i)

RECURSIVE zip_gate(_, _, _, _, _)
(* left.iter().zip(right.iter()).map(|(&l, &r)| gate(self, l, r)).collect() *)
zip_gate(st, left, right, g, n) ==
    LET i == Len(st.word)
    IN  IF i >= n THEN st
        ELSE IF i + 1 = n
        THEN collect(st.word, gate2(st.c, g, left[n], right[n]))
        ELSE zip_gate(zip_gate(st, left, right, g, (i + n) \div 2),
                      left, right, g, n)

Min(a, b) == IF a < b THEN a ELSE b

u64_bitwise_op(c, left, right, g) ==
    zip_gate([c |-> c, word |-> <<>>], left, right, g,
             Min(Len(left), Len(right)))

(* the word n.word becomes acc for the input at position i                 *)
fold_acc(n, i) == [c |-> n.c, word |-> n.word, i |-> i]

RECURSIVE u64_fan_in_fold(_, _, _)
(* inputs.iter().skip(1).fold(inputs[0], ..): st.word is acc               *)
u64_fan_in_fold(st, inputs, g) ==
    IF st.i > Len(inputs) THEN st
    ELSE u64_fan_in_fold(
             fold_acc(u64_bitwise_op(st.c, st.word, inputs[st.i], g),
                      st.i + 1),
             inputs, g)

fold_result(r) == [c |-> r.c, word |-> r.word, panic |-> ""]

u64_fan_in(c, inputs, g) ==
    IF Len(inputs) < 1
    THEN [c |-> c, word |-> <<>>,
          panic |-> "cannot u64_fan_in with fewer than one input"]
    ELSE fold_result(u64_fan_in_fold([c |-> c, word |-> inputs[1], i |-> 2],
                                     inputs, g))

RECURSIVE map_gate(_, _, _, _)
(* input.iter().map(|&i| gate(self, i)).collect()                          *)
map_gate(st, input, g, n) ==
    LET i == Len(st.word)
    IN  IF i >= n THEN st
        ELSE IF i + 1 = n
        THEN collect(st.word, gate1(st.c, g, input[n]))
        ELSE map_gate(map_gate(st, input, g, (i + n) \div 2), input, g, n)

u64_unary_op(c, input, g) ==
    map_gate([c |-> c, word |-> <<>>], input, g, Len(input))

OFFSET ==
    << <<0, 36, 3, 18, 41>>,
       <<1, 44, 10, 45, 2>>,
       <<62, 6, 43, 15, 61>>,
       <<28, 55, 25, 21, 56>>,
       <<27, 20, 39, 8, 14>> >>

rotation_offsets(c) ==
    LET m == new_keccakmatrix(c)
    IN  [c |-> set_keccakmatrix(m.c, m.matrix,
                   [x \in 1..Lanes |-> [y \in 1..Lanes |-> U64(OFFSET[x][y])]]),
         matrix |-> m.matrix]

(* One iproduct!(0..5, 0..5).map(..) pass of pi_step3: the word of cell    *)
(* (x, y), x = k / 5 and y = k % 5, for k = 0..24 in order.                *)
(*   b:          m1 = a,     m2 = r          a[x][y] xor r[x][y]           *)
(*   not_b:      m1 = b                      not b[x + 1][y]               *)
(*   and_not_b:  m1 = not_b, m2 = b          not_b[x][y] and b[x + 2][y]   *)
(*   out:        m1 = b,     m2 = and_not_b  b[x][y] xor and_not_b[x][y]   *)
pi_word(c, stage, m1, m2, x, y) ==
    IF stage = "not_b"
    THEN u64_unary_op(c, Lane(m1, x + 1, y), "not")
    ELSE u64_fan_in(c, <<Lane(m1, x, y),
                         Lane(m2, IF stage = "and_not_b" THEN x + 2 ELSE x, y)>>,
                    IF stage = "and_not_b" THEN "and" ELSE "xor")

collect_word(words, w) == [c |-> w.c, words |-> Append(words, w.word)]

RECURSIVE pi_words(_, _, _, _, _)
pi_words(st, stage, m1, m2, n) ==
    LET k == Len(st.words)
    IN  IF k >= n THEN st
        ELSE IF k + 1 = n
        THEN collect_word(st.words,
                 pi_word(st.c, stage, m1, m2, k \div Lanes, k % Lanes))
        ELSE pi_words(pi_words(st, stage, m1, m2, (k + n) \div 2),
                      stage, m1, m2, n)

(* One let statement of pi_step3: st holds the circuit and the matrices    *)
(* bound so far, and binds the new matrix under the name of the stage.     *)
pi_bind(st, stage, r) ==
    [st EXCEPT !.c = r.c, ![stage] = matrix_from(r.words)]

pi_pass(st, stage, m1, m2) ==
    pi_bind(st, stage,
            pi_words([c |-> st.c, words |-> <<>>], stage, m1, m2,
                     Lanes * Lanes))

pi_stage(st, stage) ==
    CASE stage = "b" -> pi_pass(st, stage, st.a, st.r)
      [] stage = "not_b" -> pi_pass(st, stage, st.b, st.b)
      [] stage = "and_not_b" -> pi_pass(st, stage, st.not_b, st.b)
      [] stage = "out" -> pi_pass(st, stage, st.b, st.and_not_b)

RECURSIVE pi_stages(_, _)
pi_stages(st, stages) ==
    IF stages = <<>> THEN st
    ELSE pi_stages(pi_stage(st, stages[1]), Tail(stages))

pi_locals(r, a) ==
    [c |-> r.c, a |-> a, r |-> r.matrix, b |-> <<>>, not_b |-> <<>>,
     and_not_b |-> <<>>, out |-> <<>>]

pi_return(st) == [c |-> st.c, matrix |-> st.out, b |-> st.b]

(* pi_step3; the local b is returned next to the result.                   *)
pi_step3(c, a) ==
    pi_return(pi_stages(pi_locals(rotation_offsets(c), a),
                        <<"b", "not_b", "and_not_b", "out">>))

last_step(c, a, rc) ==
    LET rc_num == new_word64(c)
        c1 == set_word64(rc_num.c, rc_num.word, rc)
        x == u64_bitwise_op(c1, Lane(a, 0, 0), rc_num.word, "xor")
    IN  [c |-> x.c, matrix |-> [a EXCEPT ![1][1] = x.word]]

(* theta.  st holds the circuit and the locals bound so far: a, the row c  *)
(* and the row d; the result is bound under "out".  k is the position in   *)
(* 0..5 for c and d and in iproduct!(0..5, 0..5) for the result.           *)
theta_inputs(st, stage, k) ==
    CASE stage = "c" ->
           <<Lane(st.a, k, 0), Lane(st.a, k, 1), Lane(st.a, k, 2),
             Lane(st.a, k, 3), Lane(st.a, k, 4)>>
      [] stage = "d" ->
           <<st.c_row[((k - 1) % Lanes) + 1],
             RotateLeft(st.c_row[((k + 1) % Lanes) + 1], 1)>>
      [] stage = "out" ->
           <<Lane(st.a, k \div Lanes, k % Lanes),
             st.d[((k \div Lanes) % Lanes) + 1]>>

RECURSIVE theta_words(_, _, _, _)
theta_words(ws, st, stage, n) ==
    LET k == Len(ws.words)
    IN  IF k >= n THEN ws
        ELSE IF k + 1 = n
        THEN collect_word(ws.words,
                 u64_fan_in(ws.c, theta_inputs(st, stage, k), "xor"))
        ELSE theta_words(theta_words(ws, st, stage, (k + n) \div 2),
                         st, stage, n)

theta_bind(st, stage, r) ==
    CASE stage = "c" -> [st EXCEPT !.c = r.c, !.c_row = r.words]
      [] stage = "d" -> [st EXCEPT !.c = r.c, !.d = r.words]
      [] stage = "out" -> [st EXCEPT !.c = r.c, !.out = matrix_from(r.words)]

theta_stage(st, stage) ==
    theta_bind(st, stage,
               theta_words([c |-> st.c, words |-> <<>>], st, stage,
                           IF stage = "out" THEN Lanes * Lanes ELSE Lanes))

RECURSIVE theta_stages(_, _)
theta_stages(st, stages) ==
    IF stages = <<>> THEN st
    ELSE theta_stages(theta_stage(st, stages[1]), Tail(stages))

theta_return(st) == [c |-> st.c, matrix |-> st.out]

theta(c, a) ==
    theta_return(theta_stages([c |-> c, a |-> a, c_row |-> <<>>, d |-> <<>>,
                               out |-> <<>>],
                              <<"c", "d", "out">>))

(* ROUND_CONSTANTS of the word64 module: the 24 round constants of         *)
(* Keccak-f[1600], as limbs.                                               *)
ROUND_CONSTANTS ==
    << <<1, 0, 0, 0>>,         <<32898, 0, 0, 0>>,
       <<32906, 0, 0, 32768>>, <<32768, 32768, 0, 32768>>,
       <<32907, 0, 0, 0>>,     <<1, 32768, 0, 0>>,
       <<32897, 32768, 0, 32768>>, <<32777, 0, 0, 32768>>,
       <<138, 0, 0, 0>>,       <<136, 0, 0, 0>>,
       <<32777, 32768, 0, 0>>, <<10, 32768, 0, 0>>,
       <<32907, 32768, 0, 0>>, <<139, 0, 0, 32768>>,
       <<32905, 0, 0, 32768>>, <<32771, 0, 0, 32768>>,
       <<32770, 0, 0, 32768>>, <<128, 0, 0, 32768>>,
       <<32778, 0, 0, 0>>,     <<10, 32768, 0, 32768>>,
       <<32897, 32768, 0, 32768>>, <<32896, 0, 0, 32768>>,
       <<1, 32768, 0, 0>>,     <<32776, 32768, 0, 32768>> >>

(* the let statements of round, each taking the matrix and the circuit     *)
(* the statement before it left                                            *)
round_pi(t) == pi_step3(t.c, t.matrix)

round_last(p, rc) == last_step(p.c, p.matrix, rc)

round(c, a, rc) == round_last(round_pi(theta(c, a)), rc)

fold_round(acc, rc) == round(acc.c, acc.matrix, rc)

RECURSIVE keccak_fold(_, _, _)
(* (0..end).fold(a, |acc, n| self.round(acc, ROUND_CONSTANTS[n])): n is    *)
(* the position in the range and acc the matrix and the circuit of the     *)
(* rounds so far.  ROUND_CONSTANTS[n] with n past the table panics: the    *)
(* fold is abandoned and nothing is returned.  rounds counts the calls of  *)
(* round.                                                                  *)
keccak_fold(acc, n, end) ==
    IF n >= end
    THEN [c |-> acc.c, matrix |-> acc.matrix, panic |-> "", rounds |-> n]
    ELSE IF n >= Len(ROUND_CONSTANTS)
    THEN [panic |-> "index out of bounds", rounds |-> n]
    ELSE keccak_fold(fold_round(acc, ROUND_CONSTANTS[n + 1]), n + 1, end)

keccak_f(c, a) == keccak_fold([c |-> c, matrix |-> a], 0, 25)

----------------------------------------------------------------------------
(* The API specification: any sequence of public calls on one circuit.     *)

Store(c) ==
    /\ next_wire_id' = c.next_wire_id
    /\ next_sub_circuit_id' = c.next_sub_circuit_id
    /\ wire_assignments' = c.wire_assignments
    /\ sub_circuit_wires' = c.sub_circuit_wires
    /\ wire_values' = c.wire_values

(* ret names the last call and its outcome; what the call returned is a    *)
(* function of the circuit it ran on (value, assignments, evaluate above). *)
Call(op, panic) == [op |-> op, panic |-> panic]

Running == ret.panic = ""

Allocated == 0..(next_wire_id - 1)

InputValues == 0..MaxInput

(* Term lists offered to new_sub_circuit: at most one term, of weight 1    *)
(* (the gate constructors supply the longer lists and the weight -1).      *)
TermLists == {<<>>} \cup {<< <<One, w>> >> : w \in Allocated}

Holds(c) ==
    /\ next_wire_id = c.next_wire_id
    /\ next_sub_circuit_id = c.next_sub_circuit_id
    /\ wire_assignments = c.wire_assignments
    /\ sub_circuit_wires = c.sub_circuit_wires
    /\ wire_values = c.wire_values

Init ==
    /\ Holds(new(MaxWires, MaxSubs))
    /\ ret = Call("new", "")
    /\ pc = "api"
    /\ kst = <<>>

NewWire ==
    /\ Running
    /\ next_wire_id < MaxWires
    /\ LET r == new_wire(Self)
       IN  /\ Store(r.c)
           /\ ret' = Call("new_wire", "")
    /\ UNCHANGED <<pc, kst>>

NewSubCircuit ==
    /\ Running
    /\ next_wire_id < MaxWires
    /\ next_sub_circuit_id < MaxSubs
    /\ \E left_inputs \in TermLists, right_inputs \in TermLists :
          LET r == new_sub_circuit(Self, left_inputs, right_inputs)
          IN  /\ Store(r.c)
              /\ ret' = Call("new_sub_circuit", "")
    /\ UNCHANGED <<pc, kst>>

SetValue ==
    /\ Running
    /\ \E wire \in Allocated, v \in InputValues :
          /\ Store(set_value(Self, wire, v))
          /\ ret' = Call("set_value", "")
    /\ UNCHANGED <<pc, kst>>

(* The read-only calls take any wire id of the universe: the allocated     *)
(* ones and, while there is room, ids the circuit has not handed out.      *)
Value ==
    /\ Running
    /\ \E wire \in 0..(MaxWires - 1) :
          LET r == value(Self, wire)
          IN  ret' = Call("value", r.panic)
    /\ UNCHANGED <<next_wire_id, next_sub_circuit_id, wire_assignments,
                   sub_circuit_wires, wire_values, pc, kst>>

Assignments ==
    /\ Running
    /\ \E wire \in 0..(MaxWires - 1) :
          LET r == assignments(Self, wire)
          IN  ret' = Call("assignments", r.panic)
    /\ UNCHANGED <<next_wire_id, next_sub_circuit_id, wire_assignments,
                   sub_circuit_wires, wire_values, pc, kst>>

Evaluate ==
    /\ Running
    /\ \E wire \in 0..(MaxWires - 1) :
          LET r == evaluate(Self, wire, {})
          IN  /\ Store(r.c)
              /\ ret' = Call("evaluate", r.panic)
    /\ UNCHANGED <<pc, kst>>

Reset ==
    /\ Running
    /\ Store(reset(Self))
    /\ ret' = Call("reset", "")
    /\ UNCHANGED <<pc, kst>>

NewBitChecker ==
    /\ Running
    /\ next_wire_id < MaxWires
    /\ next_sub_circuit_id < MaxSubs
    /\ \E input \in Allocated :
          LET r == new_bit_checker(Self, input)
          IN  /\ Store(r.c)
              /\ ret' = Call("new_bit_checker", "")
    /\ UNCHANGED <<pc, kst>>

NewNot ==
    /\ Running
    /\ next_wire_id < MaxWires
    /\ next_sub_circuit_id < MaxSubs
    /\ \E input \in Allocated :
          LET r == new_not(Self, input)
          IN  /\ Store(r.c)
              /\ ret' = Call("new_not", "")
    /\ UNCHANGED <<pc, kst>>

NewGate2 ==
    /\ Running
    /\ \E g \in {"and", "or", "xor"}, lhs \in Allocated, rhs \in Allocated :
          /\ next_wire_id + (IF g = "or" THEN 1 ELSE 0) < MaxWires
          /\ next_sub_circuit_id + (IF g = "or" THEN 1 ELSE 0) < MaxSubs
          /\ LET r == gate2(Self, g, lhs, rhs)
             IN  /\ Store(r.c)
                 /\ ret' = Call(g, "")
    /\ UNCHANGED <<pc, kst>>

Next ==
    \/ NewWire
    \/ NewSubCircuit
    \/ SetValue
    \/ Value
    \/ Assignments
    \/ Evaluate
    \/ Reset
    \/ NewBitChecker
    \/ NewNot
    \/ NewGate2

Spec == Init /\ [][Next]_vars

----------------------------------------------------------------------------
(* Claims checked under Spec.                                              *)

Stored(s) == sub_circuit_wires[s] # <<>>
Cached(w) == wire_values[w] # <<>> /\ wire_values[w][1] # <<>>
Cache(vals, w) == vals[w][1][1]
Conns(w) == IF wire_assignments[w] = <<>> THEN <<>> ELSE wire_assignments[w][1]
OutputsOf(w) == SelectSeq(Conns(w), IsOutput)
ReadBy(s) ==
    {sub_circuit_wires[s][1].left_inputs[i][2] :
        i \in 1..Len(sub_circuit_wires[s][1].left_inputs)}
    \cup {sub_circuit_wires[s][1].right_inputs[i][2] :
        i \in 1..Len(sub_circuit_wires[s][1].right_inputs)}

(* C1: in every reachable state evaluate(wire 0) returns the additive      *)
(* identity and evaluate(wire 1) returns the multiplicative identity.      *)
C1_ConstantInvariance ==
    /\ evaluate(Self, zero_wire, {}).panic = ""
    /\ evaluate(Self, zero_wire, {}).value = Zero
    /\ evaluate(Self, unity_wire, {}).panic = ""
    /\ evaluate(Self, unity_wire, {}).value = One

(* C6: every stored sub-circuit's output wire id is greater than every     *)
(* wire id it reads, and evaluate on any wire never re-enters a wire that  *)
(* is being evaluated (the recursion ends).                                *)
C6_AcyclicTermination ==
    /\ \A s \in DOMAIN sub_circuit_wires :
          Stored(s) => \A w \in ReadBy(s) : w < sub_circuit_wires[s][1].output
    /\ \A w \in DOMAIN wire_values :
          evaluate(Self, w, {}).panic # "stack overflow"

C6_Witness ==
    /\ ret.op = "evaluate"
    /\ ret.panic = ""
    /\ \E s \in DOMAIN sub_circuit_wires, t \in DOMAIN sub_circuit_wires :
          /\ Stored(s) /\ Stored(t)
          /\ sub_circuit_wires[t][1].output \in ReadBy(s)
          /\ Cached(sub_circuit_wires[s][1].output)
          /\ Cached(sub_circuit_wires[t][1].output)

(* C7: each wire carries at most one Output connection, and wire w carries *)
(* Output(s) exactly when sub-circuit s is stored with output wire w.      *)
C7_OutputUnique ==
    /\ \A w \in DOMAIN wire_assignments : Len(OutputsOf(w)) <= 1
    /\ \A w \in DOMAIN wire_assignments, s \in DOMAIN sub_circuit_wires :
          (\E i \in 1..Len(Conns(w)) : Conns(w)[i] = <<"Output", s>>)
          <=> (Stored(s) /\ sub_circuit_wires[s][1].output = w)

C7_Witness ==
    /\ next_sub_circuit_id = 2
    /\ Stored(0) /\ Stored(1)
    /\ Len(OutputsOf(sub_circuit_wires[0][1].output)) = 1
    /\ Len(OutputsOf(sub_circuit_wires[1][1].output)) = 1
    /\ sub_circuit_wires[0][1].output \in ReadBy(1)
    /\ OutputsOf(zero_wire) = <<>>

UnknownWire ==
    {"wire is not defined in this circuit",
     "cannot evaluate unknown wire",
     "wire id is not defined in this circuit"}

(* C9: for every wire that new_wire or new_sub_circuit has returned, none  *)
(* of value, evaluate and assignments raises the UnknownWire condition.    *)
C9_AllocatedNeverUnknown ==
    \A w \in Allocated \ {zero_wire, unity_wire} :
        /\ value(Self, w).panic \notin UnknownWire
        /\ evaluate(Self, w, {}).panic \notin UnknownWire
        /\ assignments(Self, w).panic \notin UnknownWire

RECURSIVE WeightedSum(_, _)
WeightedSum(terms, vals) ==
    IF terms = <<>> THEN Zero
    ELSE Add(Mul(terms[1][1], Cache(vals, terms[1][2])),
             WeightedSum(Tail(terms), vals))

(* C10: evaluate(w) returns the cached value of w and changes nothing if   *)
(* there is one; otherwise, w being the output of sub-circuit S, it        *)
(* returns (sum of weight * value over S's left terms) times (the same     *)
(* over its right terms), stores that product as w's value, and a second   *)
(* evaluate(w) returns it without a change; evaluate never alters the      *)
(* connection map, the sub-circuit map or the counters.                    *)
C10_CacheOrCompute ==
    \A w \in DOMAIN wire_values :
        LET r == evaluate(Self, w, {})
        IN  /\ r.c.next_wire_id = next_wire_id
            /\ r.c.next_sub_circuit_id = next_sub_circuit_id
            /\ r.c.wire_assignments = wire_assignments
            /\ r.c.sub_circuit_wires = sub_circuit_wires
            /\ Cached(w) =>
                  /\ r.panic = ""
                  /\ r.value = Cache(wire_values, w)
                  /\ r.c.wire_values = wire_values
            /\ (~Cached(w) /\ r.panic = "") =>
                  LET S == sub_circuit_wires[OutputsOf(w)[1][2]][1]
                  IN  /\ S.output = w
                      /\ r.value =
                            Mul(WeightedSum(S.left_inputs, r.c.wire_values),
                                WeightedSum(S.right_inputs, r.c.wire_values))
                      /\ r.c.wire_values[w] = << <<r.value>> >>
                      /\ evaluate(r.c, w, {}) = EOk(r.c, r.value)

C10_Witness ==
    /\ ret.op = "evaluate"
    /\ ret.panic = ""
    /\ \E s \in DOMAIN sub_circuit_wires, t \in DOMAIN sub_circuit_wires :
          /\ Stored(s) /\ Stored(t)
          /\ sub_circuit_wires[t][1].output \in ReadBy(s)
          /\ Len(sub_circuit_wires[s][1].left_inputs) = 2
          /\ Cached(sub_circuit_wires[s][1].output)
          /\ Cache(wire_values, sub_circuit_wires[s][1].output) = One
          /\ \E u \in Allocated : ~Cached(u)

----------------------------------------------------------------------------
(* The gate scenario: four input wires are allocated and bound, one gate   *)
(* (or fan_in over the four wires, next to the balanced tree of the same   *)
(* gate) is built over them, and its output is evaluated.                  *)

FieldValues == 0..(P - 1)

GateInit ==
    /\ Holds(new(2 + 4 + 8, 8))
    /\ ret = Call("new", "")
    /\ pc = "bind"
    /\ kst = [inputs |-> <<>>, vals |-> <<>>, gate |-> "", out |-> <<>>,
              res |-> <<>>]

RECURSIVE bind_inputs(_, _, _)
(* new_wire followed by set_value, once per value of vals                  *)
bind_inputs(c, vals, wires) ==
    IF vals = <<>> THEN [c |-> c, wires |-> wires]
    ELSE LET nw == new_wire(c)
         IN  bind_inputs(set_value(nw.c, nw.wire, vals[1]), Tail(vals),
                         Append(wires, nw.wire))

GateBind ==
    /\ pc = "bind"
    /\ \E v0 \in FieldValues, v1 \in InputValues, v2 \in InputValues,
          v3 \in InputValues :
          LET r == bind_inputs(Self, <<v0, v1, v2, v3>>, <<>>)
          IN  /\ Store(r.c)
              /\ kst' = [kst EXCEPT !.inputs = r.wires,
                                    !.vals = <<v0, v1, v2, v3>>]
    /\ ret' = Call("set_value", "")
    /\ pc' = "build"

GateUnary ==
    /\ pc = "build"
    /\ \E g \in {"not", "bit_checker"} :
          LET r == IF g = "not" THEN new_not(Self, kst.inputs[1])
                   ELSE new_bit_checker(Self, kst.inputs[1])
          IN  /\ Store(r.c)
              /\ kst' = [kst EXCEPT !.gate = g, !.out = <<r.wire>>]
              /\ ret' = Call(g, "")
    /\ pc' = "built"

GateBinary ==
    /\ pc = "build"
    /\ \E g \in {"and", "or", "xor"} :
          LET r == gate2(Self, g, kst.inputs[1], kst.inputs[2])
          IN  /\ Store(r.c)
              /\ kst' = [kst EXCEPT !.gate = g, !.out = <<r.wire>>]
              /\ ret' = Call(g, "")
    /\ pc' = "built"

(* fan_in(&[w0, w1, w2, w3], Circuit::new_xor), then the balanced tree     *)
(* xor(xor(w0, w1), xor(w2, w3)) over the same wires.                      *)
GateFanIn ==
    /\ pc = "build"
    /\ LET f == fan_in(Self, kst.inputs, "xor")
           t1 == new_xor(f.c, kst.inputs[1], kst.inputs[2])
           t2 == new_xor(t1.c, kst.inputs[3], kst.inputs[4])
           t3 == new_xor(t2.c, t1.wire, t2.wire)
       IN  /\ f.panic = ""
           /\ Store(t3.c)
           /\ kst' = [kst EXCEPT !.gate = "fan_in", !.out = <<f.wire, t3.wire>>]
    /\ ret' = Call("fan_in", "")
    /\ pc' = "built"

RECURSIVE evaluate_each(_, _, _)
(* evaluate on the wires st.i..last of a sequence, in order; a panic ends  *)
(* the run                                                                 *)
evaluate_each(st, wires, last) ==
    IF st.i > last THEN st
    ELSE IF st.i = last
    THEN IF st.panic # "" THEN [st EXCEPT !.i = st.i + 1]
         ELSE LET e == evaluate(st.c, wires[st.i], {})
              IN  [c |-> e.c, panic |-> e.panic,
                   res |-> IF e.panic = "" THEN Append(st.res, e.value)
                           ELSE st.res,
                   i |-> st.i + 1]
    ELSE evaluate_each(evaluate_each(st, wires, (st.i + last) \div 2),
                       wires, last)

evaluate_all(c, wires, res) ==
    evaluate_each([c |-> c, panic |-> "", res |-> res, i |-> 1],
                  wires, Len(wires))

GateEvaluate ==
    /\ pc = "built"
    /\ LET r == evaluate_all(Self, kst.out, <<>>)
       IN  /\ Store(r.c)
           /\ kst' = [kst EXCEPT !.res = r.res]
           /\ ret' = Call("evaluate", r.panic)
    /\ pc' = "done"

GateNext ==
    \/ GateBind
    \/ GateUnary
    \/ GateBinary
    \/ GateFanIn
    \/ GateEvaluate

SpecGate == GateInit /\ [][GateNext]_vars

Bool == {0, 1}
GateDone(g) == pc = "done" /\ kst.gate = g

(* C2: for x, y in {0, 1} bound to the input wires, evaluate(new_not(x)) = *)
(* 1 - x, evaluate(new_and(x, y)) = x*y, evaluate(new_or(x, y)) =          *)
(* x + y - x*y (boolean OR), evaluate(new_xor(x, y)) = (x - y)^2 (boolean  *)
(* XOR); and for every field value x, evaluate(new_bit_checker(x)) is the  *)
(* additive identity if and only if x is 0 or 1.                           *)
C2_GateCorrectness ==
    pc = "done" =>
        LET x == kst.vals[1]
            y == kst.vals[2]
        IN  /\ ret.panic = ""
            /\ (kst.gate = "not" /\ x \in Bool) => kst.res = <<1 - x>>
            /\ (kst.gate = "and" /\ x \in Bool /\ y \in Bool) =>
                  kst.res = <<x * y>>
            /\ (kst.gate = "or" /\ x \in Bool /\ y \in Bool) =>
                  /\ kst.res = <<x + y - x * y>>
                  /\ kst.res = <<IF x = 1 \/ y = 1 THEN 1 ELSE 0>>
            /\ (kst.gate = "xor" /\ x \in Bool /\ y \in Bool) =>
                  /\ kst.res = <<(x - y) * (x - y)>>
                  /\ kst.res = <<IF x # y THEN 1 ELSE 0>>
            /\ kst.gate = "bit_checker" =>
                  (kst.res = <<Zero>> <=> x \in Bool)

C2_Witness ==
    /\ GateDone("bit_checker")
    /\ kst.vals[1] = 2
    /\ kst.res = <<2>>

(* C8 as stated: for any four field values the left fold built by fan_in   *)
(* evaluates to the same value as the balanced tree.                       *)
C8_FoldEqualsTreeAnyValues ==
    GateDone("fan_in") => kst.res[1] = kst.res[2]

(* C8 amended: for four wires bound to values in {0, 1}, the wire returned *)
(* by fan_in([w0, w1, w2, w3], new_xor) evaluates to the same value as the *)
(* balanced tree xor(xor(w0, w1), xor(w2, w3)).                            *)
C8_FoldEqualsTreeOnBooleans ==
    (GateDone("fan_in") /\ \A i \in 1..4 : kst.vals[i] \in Bool) =>
        /\ ret.panic = ""
        /\ kst.res[1] = kst.res[2]

C8_Witness ==
    /\ GateDone("fan_in")
    /\ kst.vals = <<1, 0, 1, 1>>
    /\ kst.res = <<1, 1>>
    /\ next_sub_circuit_id = 6

----------------------------------------------------------------------------
(* The Keccak step scenarios: a state matrix is allocated and bound to an  *)
(* input, one builder step is applied to it, and the words of the result   *)
(* are evaluated.                                                          *)

MaxCell == 1     \* the input has one lane set, at (x, 0) with x in 0..MaxCell
MaxRc == 1       \* last_step is given ROUND_CONSTANTS[0..MaxRc]

MatrixWires == Lanes * Lanes * WordBits

LaneValues == {U64(0), U64(1), <<1, 0, 0, 32768>>}

InputMatrix(cx, cy, v) ==
    [x \in 1..Lanes |-> [y \in 1..Lanes |->
        IF x = cx + 1 /\ y = cy + 1 THEN v ELSE U64(0)]]

KInputs == {InputMatrix(cx, 0, v) : cx \in 0..MaxCell, v \in LaneValues}

Cells == (0..(Lanes - 1)) \X (0..(Lanes - 1))

KStart ==
    /\ ret = Call("new", "")
    /\ pc = "k_new"
    /\ kst = [input |-> <<>>, a |-> <<>>, b |-> <<>>, m |-> <<>>,
              cell |-> <<>>, res |-> <<>>, res2 |-> <<>>, rounds |-> 0]

(* new_keccakmatrix and set_keccakmatrix: the caller's input state         *)
NewState(inputs) ==
    /\ pc = "k_new"
    /\ \E input \in inputs :
          LET m == new_keccakmatrix(Self)
          IN  /\ Store(set_keccakmatrix(m.c, m.matrix, input))
              /\ kst' = [kst EXCEPT !.input = input, !.a = m.matrix]
    /\ ret' = Call("set_keccakmatrix", "")
    /\ pc' = "k_input"

KNewState == NewState(KInputs)

KPiStep3 ==
    /\ pc = "k_input"
    /\ LET r == pi_step3(Self, kst.a)
       IN  /\ Store(r.c)
           /\ kst' = [kst EXCEPT !.b = r.b, !.m = r.matrix]
    /\ ret' = Call("pi_step3", "")
    /\ pc' = "k_pi"

(* evaluate on the 64 wires of the intermediate word B[y, 2x+3y]           *)
KEvaluateB ==
    /\ pc = "k_pi"
    /\ \E cell \in Cells :
          LET x == cell[1]
              y == cell[2]
              r == evaluate_all(Self, Lane(kst.b, y, 2 * x + 3 * y), <<>>)
          IN  /\ Store(r.c)
              /\ kst' = [kst EXCEPT !.cell = cell, !.res = r.res]
              /\ ret' = Call("evaluate", r.panic)
    /\ pc' = "k_evalB"

(* evaluate on the 64 wires of the word (x, y) of the step's result        *)
KEvaluate ==
    /\ pc \in {"k_pi", "k_iota"}
    /\ \E cell \in Cells :
          LET r == evaluate_all(Self, Lane(kst.m, cell[1], cell[2]), <<>>)
          IN  /\ Store(r.c)
              /\ kst' = [kst EXCEPT !.cell = cell, !.res = r.res]
              /\ ret' = Call("evaluate", r.panic)
    /\ pc' = "k_eval"

PiInit == Holds(new(2 + 6 * MatrixWires, 4 * MatrixWires)) /\ KStart

PiNext ==
    \/ KNewState
    \/ KPiStep3
    \/ KEvaluateB
    \/ KEvaluate

SpecPi == PiInit /\ [][PiNext]_vars

KLastStep ==
    /\ pc = "k_input"
    /\ \E i \in 0..MaxRc :
          LET r == last_step(Self, kst.a, ROUND_CONSTANTS[i + 1])
          IN  /\ Store(r.c)
              /\ kst' = [kst EXCEPT !.m = r.matrix]
    /\ ret' = Call("last_step", "")
    /\ pc' = "k_iota"

KReset ==
    /\ pc = "k_eval"
    /\ Running
    /\ Store(reset(Self))
    /\ ret' = Call("reset", "")
    /\ pc' = "k_reset"
    /\ UNCHANGED kst

(* the caller binds the same input to its state matrix again               *)
KRebind ==
    /\ pc = "k_reset"
    /\ Store(set_keccakmatrix(Self, kst.a, kst.input))
    /\ ret' = Call("set_keccakmatrix", "")
    /\ pc' = "k_rebound"
    /\ UNCHANGED kst

(* evaluate on the same word as before the reset                           *)
KEvaluateAgain ==
    /\ pc = "k_rebound"
    /\ LET r == evaluate_all(Self, Lane(kst.m, kst.cell[1], kst.cell[2]), <<>>)
       IN  /\ Store(r.c)
           /\ kst' = [kst EXCEPT !.res2 = r.res]
           /\ ret' = Call("evaluate", r.panic)
    /\ pc' = "k_eval2"

IotaInit == Holds(new(2 + MatrixWires + 2 * WordBits, WordBits)) /\ KStart

IotaNext ==
    \/ KNewState
    \/ KLastStep
    \/ KEvaluate
    \/ KReset
    \/ KRebind
    \/ KEvaluateAgain

SpecIota == IotaInit /\ [][IotaNext]_vars

(* keccak_f on a state with one lane set, anywhere in the matrix           *)
KfInputs ==
    {InputMatrix(cx, cy, v) :
        cx \in 0..(Lanes - 1), cy \in 0..(Lanes - 1),
        v \in LaneValues \cup {<<65535, 65535, 65535, 65535>>}}

KfNewState == NewState(KfInputs)

(* what the caller holds after keccak_f: the matrix returned, or nothing   *)
(* when the call panicked, which unwinds through the owner of the circuit  *)
KfReturn(r) ==
    /\ IF r.panic = ""
       THEN /\ Store(r.c)
            /\ kst' = [kst EXCEPT !.m = r.matrix, !.rounds = r.rounds]
       ELSE /\ UNCHANGED <<next_wire_id, next_sub_circuit_id,
                           wire_assignments, sub_circuit_wires, wire_values>>
            /\ kst' = [kst EXCEPT !.rounds = r.rounds]
    /\ ret' = Call("keccak_f", r.panic)

KKeccakF ==
    /\ pc = "k_input"
    /\ KfReturn(keccak_f(Self, kst.a))
    /\ pc' = "k_keccak_f"

(* The maps have room for the state matrix, which is all that a state of   *)
(* this specification holds: the gates of the rounds live in the circuit   *)
(* that keccak_fold threads through the fold, and reach a state only with  *)
(* the matrix keccak_f returns.                                            *)
KfInit == Holds(new(2 + MatrixWires, 1)) /\ KStart

KfNext ==
    \/ KfNewState
    \/ KKeccakF

SpecKeccakF == KfInit /\ [][KfNext]_vars

RECURSIVE Bits(_, _)
(* the n low bits of a u64, bit 0 first                                    *)
Bits(v, n) ==
    IF n = 0 THEN <<>>
    ELSE <<IF IsOdd(v) THEN 1 ELSE 0>> \o Bits(Shr1(v), n - 1)

(* C4: for every (x, y) the intermediate word B[y, (2x+3y) mod 5] of       *)
(* pi_step3 evaluates, bit by bit, to the input word A[x, y] rotated left  *)
(* by OFFSET[x][y] positions.                                              *)
C4_RhoPiRotates ==
    pc = "k_evalB" =>
        /\ ret.panic = ""
        /\ kst.res = RotateLeft(Bits(Lane(kst.input, kst.cell[1], kst.cell[2]),
                                     WordBits),
                                Lane(OFFSET, kst.cell[1], kst.cell[2]))

(* C3: keccak_f returns, having applied round exactly 24 times, to the     *)
(* round constants 0..23 of the table in order; no read of the table is    *)
(* out of range, so the call does not panic.                               *)
C3_TwentyFourRounds ==
    pc = "k_keccak_f" => (ret.panic = "" /\ kst.rounds = 24)

(* C5: evaluating an output wire, reset(), binding the same values to the  *)
(* input wires again and evaluating the wire again succeeds with the same  *)
(* value; reset() clears every cached value except those of wires 0 and 1  *)
(* and leaves the connection map, the sub-circuit map and the counters     *)
(* unchanged.                                                              *)
C5_ResetIdempotence ==
    /\ pc = "k_eval2" => (ret.panic = "" /\ kst.res2 = kst.res)
    /\ LET r == reset(Self)
       IN  /\ r.next_wire_id = next_wire_id
           /\ r.next_sub_circuit_id = next_sub_circuit_id
           /\ r.wire_assignments = wire_assignments
           /\ r.sub_circuit_wires = sub_circuit_wires
           /\ r.wire_values[zero_wire] = wire_values[zero_wire]
           /\ r.wire_values[unity_wire] = wire_values[unity_wire]
           /\ \A w \in 2..(next_wire_id - 1) : r.wire_values[w] = << <<>> >>

====
